---- MODULE Spec2Model ----
(***************************************************************************)
(* Grocery cart: the cart server (dummy_frontend_api.py) and the voice     *)
(* agent's cart client (voice_agent_working.py).                           *)
(*                                                                         *)
(* Strings are sequences of one-character strings, so that lower(),        *)
(* strip(), rstrip("s") and endswith("s") are computed, not assumed.       *)
(* The cart is Python's insertion-ordered dict: a sequence of              *)
(* [item, quantity] records with distinct items.                           *)
(*                                                                         *)
(* Two callers share the server's cart: the voice agent, which calls the   *)
(* tools GroceryAgent.add_to_cart / remove_from_cart (several awaited      *)
(* HTTP requests per call), and the frontend, which calls the HTTP         *)
(* endpoints directly.  The server runs its handlers as coroutines of one  *)
(* event loop, and no handler awaits anything: a request is handled from   *)
(* its first line to its response before the next one starts, so each      *)
(* request is one step here.  The agent's awaits are where the frontend's  *)
(* requests can come between the requests of one tool call.                *)
(***************************************************************************)
EXTENDS Integers, Sequences, FiniteSets

\* ------------------------------------------------------------- bounds
\* the cart holds at most MaxKeys keys, each with a quantity of at most
\* MaxQty; a call asks for at most MaxAsk; a history holds MaxCalls calls
MaxKeys == 2
MaxQty == 3
MaxAsk == 2
MaxCalls == 2

\* Raw item names a caller may say or post: " ", " A", "as", "aSs".
Names == { <<" ">>, <<" ", "A">>, <<"a", "s">>, <<"a", "S", "s">> }

\* Quantities a caller may give: -1 and 0 included.
Quantities == (0 - 1) .. MaxAsk

\* ------------------------------------------------------------ strings
LowerChar(ch) ==
  CASE ch = "A" -> "a"
    [] ch = "S" -> "s"
    [] OTHER -> ch

\* str.lower()
Lower(s) == [i \in 1 .. Len(s) |-> LowerChar(s[i])]

SetMin(S) == CHOOSE x \in S : \A y \in S : x <= y
SetMax(S) == CHOOSE x \in S : \A y \in S : x >= y

\* str.strip(): leading and trailing whitespace removed
Strip(s) ==
  LET keep == {i \in 1 .. Len(s) : s[i] # " "}
  IN  IF keep = {} THEN <<>> ELSE SubSeq(s, SetMin(keep), SetMax(keep))

\* str.rstrip("s"): every trailing "s" removed
RStripS(s) ==
  LET keep == {i \in 1 .. Len(s) : s[i] # "s"}
  IN  IF keep = {} THEN <<>> ELSE SubSeq(s, 1, SetMax(keep))

\* str.endswith("s")
EndsWithS(s) == Len(s) > 0 /\ s[Len(s)] = "s"

\* ---------------------------------------------------------- the cart
Items(cart) == {cart[i].item : i \in 1 .. Len(cart)}

Has(cart, k) == k \in Items(cart)

IndexOf(cart, k) == CHOOSE i \in 1 .. Len(cart) : cart[i].item = k

\* the stored quantity of k, 0 when k is no key
Qty(cart, k) == IF Has(cart, k) THEN cart[IndexOf(cart, k)].quantity ELSE 0

RECURSIVE SumQty(_)
SumQty(cart) ==
  IF cart = <<>> THEN 0 ELSE cart[1].quantity + SumQty(Tail(cart))

\* mutation of Delete: the oldest key goes, as with a pop from the front
DeleteFirst(cart, k) == Tail(cart)

\* del cart_storage[k]
Delete(cart, k) ==
  LET i == IndexOf(cart, k)
  IN  SubSeq(cart, 1, i - 1) \o SubSeq(cart, i + 1, Len(cart))

\* cart_storage[k] = v: in place when k is a key, appended otherwise
Store(cart, k, v) ==
  IF Has(cart, k)
  THEN [cart EXCEPT ![IndexOf(cart, k)].quantity = v]
  ELSE Append(cart, [item |-> k, quantity |-> v])

\* ------------------------------------------------- responses (both files)
Msg(text, n) == [text |-> text, n |-> n]

\* what a caller gets back; status 0: no HTTP request was made
Resp(status, success, message, cart_items, total_items) ==
  [status |-> status, success |-> success, message |-> message,
   cart_items |-> cart_items, total_items |-> total_items]

NoResponse == Resp(0, FALSE, Msg("none", 0), <<>>, 0)

\* CartResponse(...) built from the cart at response time
CartResponse(success, message, cart) ==
  Resp(200, success, message, cart, SumQty(cart))

\* raise HTTPException(status_code=400, detail="Quantity must be positive")
BadRequest == Resp(400, FALSE, Msg("quantity_must_be_positive", 0), <<>>, 0)

\* the client's error_result for a status other than 200
ApiError(status) == Resp(status, FALSE, Msg("failed_status", status), <<>>, 0)

\* the tool's except branch: no request was made
ToolError == Resp(0, FALSE, Msg("tool_error", 0), <<>>, 0)

\* --------------------------------------------- server: dummy_frontend_api
\* mutation of QuantityRejected: only negative quantities are refused
QuantityRejectedZero(quantity) == quantity < 0

\* if request.quantity <= 0: raise HTTPException(400)
QuantityRejected(quantity) == quantity <= 0

\* mutation of StorageKey: the key keeps the request's letter case
StorageKeyNoLower(item_name) == Strip(item_name)

\* item_name = request.item_name.lower().strip()
StorageKey(item_name) == Strip(Lower(item_name))

\* mutation of AddWrite: a present key's quantity is overwritten
AddWriteOverwrite(cart, item, quantity) == Store(cart, item, quantity)

\* the write of add_to_cart: increment a present key, insert an absent one
AddWrite(cart, item, quantity) ==
  IF Has(cart, item)
  THEN Store(cart, item, Qty(cart, item) + quantity)
  ELSE Store(cart, item, quantity)

\* mutation of add_to_cart: the response is prepared before the write
add_to_cartStaleSnapshot(cart, item_name, quantity) ==
  IF QuantityRejected(quantity)
  THEN [cart |-> cart, http |-> BadRequest]
  ELSE [cart |-> AddWrite(cart, StorageKey(item_name), quantity),
        http |-> CartResponse(TRUE, Msg("added", quantity), cart)]

\* POST /api/cart/add: the cart afterwards and the response
add_to_cart(cart, item_name, quantity) ==
  IF QuantityRejected(quantity)
  THEN [cart |-> cart, http |-> BadRequest]
  ELSE LET after == AddWrite(cart, StorageKey(item_name), quantity)
       IN  [cart |-> after,
            http |-> CartResponse(TRUE, Msg("added", quantity), after)]

\* mutation of RemoveWrite: a key is deleted only when more than its whole
\* quantity is asked for
RemoveWriteOffByOne(cart, item, quantity) ==
  IF Qty(cart, item) < quantity
  THEN [cart |-> Delete(cart, item), message |-> Msg("removed_all", Qty(cart, item))]
  ELSE [cart |-> Store(cart, item, Qty(cart, item) - quantity),
        message |-> Msg("removed", quantity)]

\* mutation of RemoveWrite: a key is deleted only when exactly its quantity
\* is asked for
RemoveWriteNoCap(cart, item, quantity) ==
  IF Qty(cart, item) = quantity
  THEN [cart |-> Delete(cart, item), message |-> Msg("removed_all", Qty(cart, item))]
  ELSE [cart |-> Store(cart, item, Qty(cart, item) - quantity),
        message |-> Msg("removed", quantity)]

\* the write of remove_from_cart on a present key: delete when the stored
\* quantity <= the requested one, else decrement
RemoveWrite(cart, item, quantity) ==
  IF Qty(cart, item) <= quantity
  THEN [cart |-> Delete(cart, item), message |-> Msg("removed_all", Qty(cart, item))]
  ELSE [cart |-> Store(cart, item, Qty(cart, item) - quantity),
        message |-> Msg("removed", quantity)]

\* mutation of remove_from_cart: the name is looked up as it was sent
remove_from_cartVerbatim(cart, item_name, quantity) ==
  IF QuantityRejected(quantity)
  THEN [cart |-> cart, http |-> BadRequest]
  ELSE IF ~Has(cart, item_name)
  THEN [cart |-> cart,
        http |-> CartResponse(FALSE, Msg("not_in_cart", 0), cart)]
  ELSE LET w == RemoveWrite(cart, item_name, quantity)
       IN  [cart |-> w.cart, http |-> CartResponse(TRUE, w.message, w.cart)]

\* POST /api/cart/remove: the cart afterwards and the response
remove_from_cart(cart, item_name, quantity) ==
  IF QuantityRejected(quantity)
  THEN [cart |-> cart, http |-> BadRequest]
  ELSE IF ~Has(cart, StorageKey(item_name))
  THEN [cart |-> cart,
        http |-> CartResponse(FALSE, Msg("not_in_cart", 0), cart)]
  ELSE LET w == RemoveWrite(cart, StorageKey(item_name), quantity)
       IN  [cart |-> w.cart, http |-> CartResponse(TRUE, w.message, w.cart)]

\* GET /api/cart/view
view_cart(cart) ==
  [cart |-> cart,
   http |-> CartResponse(TRUE, Msg("contains", SumQty(cart)), cart)]

\* mutation of clear_cart: the count reported is the total quantity
clear_cartCountsTotal(cart) ==
  [cart |-> <<>>, http |-> Resp(200, TRUE, Msg("cleared", SumQty(cart)), <<>>, 0)]

\* DELETE /api/cart/clear
clear_cart(cart) ==
  [cart |-> <<>>, http |-> Resp(200, TRUE, Msg("cleared", Len(cart)), <<>>, 0)]

\* ----------------------------------------- client: voice_agent_working
\* the tools' manual validation: quantity < 1, or a name empty once stripped
ToolRejects(quantity, item_name) ==
  quantity < 1 \/ Len(item_name) = 0 \/ Len(Strip(item_name)) = 0

\* mutation of Normalize: trailing s are taken off instead of one put on
NormalizeSingular(item_name) == RStripS(Strip(Lower(item_name)))

\* mutation of Normalize: an s is appended whatever the name ends in
NormalizeAlwaysAppend(item_name) == Strip(Lower(item_name)) \o <<"s">>

\* mutation of Normalize: the name is not pluralized
NormalizeKeep(item_name) == Strip(Lower(item_name))

\* grocery_api_add_item's normalization: lower, strip, pluralize
Normalize(item_name) ==
  LET normalized_name == Strip(Lower(item_name))
  IN  IF EndsWithS(normalized_name) /\ Len(normalized_name) > 1
      THEN normalized_name
      ELSE IF ~EndsWithS(normalized_name)
           THEN normalized_name \o <<"s">>
           ELSE normalized_name

\* grocery_api_add_item: normalize, POST /cart/add, result by status
grocery_api_add_item(cart, item_name, quantity) ==
  LET r == add_to_cart(cart, Normalize(item_name), quantity)
  IN  [cart |-> r.cart,
       result |-> IF r.http.status = 200 THEN r.http ELSE ApiError(r.http.status)]

\* mutation of Matches: without the fourth pattern
MatchesNoRStrip(item_lower, cart_item_name) ==
  \/ item_lower = cart_item_name
  \/ item_lower \o <<"s">> = cart_item_name
  \/ item_lower = cart_item_name \o <<"s">>

\* the four matching patterns of grocery_api_remove_item
Matches(item_lower, cart_item_name) ==
  \/ item_lower = cart_item_name
  \/ item_lower \o <<"s">> = cart_item_name
  \/ item_lower = cart_item_name \o <<"s">>
  \/ RStripS(item_lower) = RStripS(cart_item_name)

\* mutation of Candidates: the viewed cart_items are scanned from the end
CandidatesLastFirst(cart_items, item_name) ==
  LET item_lower == Strip(Lower(item_name))
      n == Len(cart_items)
  IN  SelectSeq([i \in 1 .. n |-> cart_items[n + 1 - i].item],
                LAMBDA k : Matches(item_lower, Strip(Lower(k))))

\* mutation of Candidates: the requested name keeps its letter case
CandidatesCaseSensitive(cart_items, item_name) ==
  LET item_lower == Strip(item_name)
  IN  SelectSeq([i \in 1 .. Len(cart_items) |-> cart_items[i].item],
                LAMBDA k : Matches(item_lower, Strip(Lower(k))))

\* the names the for loop over the viewed cart_items retries with, in order
Candidates(cart_items, item_name) ==
  LET item_lower == Strip(Lower(item_name))
  IN  SelectSeq([i \in 1 .. Len(cart_items) |-> cart_items[i].item],
                LAMBDA k : Matches(item_lower, Strip(Lower(k))))

\* what the tool says after grocery_api_add_item / grocery_api_remove_item
\* the sentence names cart_item.quantity, the quantity asked for
AddReply(result, quantity) ==
  IF result.success THEN Msg("added", quantity) ELSE Msg("could_not_add", 0)

RemoveReply(result, quantity) ==
  IF result.success THEN Msg("removed", quantity) ELSE Msg("could_not_remove", 0)

\* the except branch's sentence, and no sentence at all (a frontend call)
ErrorReply == Msg("error", 0)

NoReply == Msg("none", 0)

\* -------------------------------------------------------------- state
VARIABLES
  cart_storage,  \* the server's cart_storage dict, in insertion order
  pc,            \* where the agent's tool call stands: idle, view, retry
  call,          \* the agent's tool call in flight and its local variables
  cart0,         \* history: the cart the history starts from
  log            \* history: the completed calls, oldest first

vars == <<cart_storage, pc, call, cart0, log>>

\* The agent's call in flight.  name: the tool's stripped
\* cart_item.item_name; quantity: its quantity; result: the exact-name
\* response grocery_api_remove_item keeps; payload: the item_name of the
\* retry request; rest: matching cart items the loop has yet to try.
\* sent: the requests the call has made so far.
\* History only: said (the name as the caller gave it), before (the cart
\* when the call began), alone (no other call was made during it).
NoCall ==
  [name |-> <<>>, quantity |-> 0, result |-> NoResponse, payload |-> <<>>,
   rest |-> <<>>, sent |-> 0, said |-> <<>>, before |-> <<>>, alone |-> TRUE]

\* the history holds at most MaxCalls calls
CanStart == Len(log) + (IF pc = "idle" THEN 0 ELSE 1) < MaxCalls

\* the model's cap on the cart: at most MaxKeys keys, quantities to MaxQty
CapOk(key, quantity) ==
  /\ Qty(cart_storage, key) + quantity <= MaxQty
  /\ Has(cart_storage, key) \/ Len(cart_storage) < MaxKeys

\* A completed call: who called what with which arguments; before, the
\* cart when the call began; alone, whether no other call was made during
\* it; requests, how many requests it made; key, the storage key of its
\* last request; at and after, the cart before and after that request;
\* response, what the call returned; reply, what the tool said.
Entry(caller, op, item_name, quantity, c, requests, key, after, r, reply) ==
  [caller |-> caller, op |-> op, item_name |-> item_name,
   quantity |-> quantity, before |-> c.before, alone |-> c.alone,
   requests |-> requests, key |-> key, at |-> cart_storage, after |-> after,
   response |-> r, reply |-> reply]

\* a frontend call is one request: it runs alone unless the agent's call is
\* in flight, and then the agent's call did not run alone either
FrontendCall(op, item_name, quantity, r) ==
  /\ CanStart
  /\ cart_storage' = r.cart
  /\ log' = Append(log,
                   Entry("frontend", op, item_name, quantity,
                         [before |-> cart_storage, alone |-> pc = "idle"],
                         1, StorageKey(item_name), r.cart, r.http, NoReply))
  /\ call' = IF pc # "idle" THEN [call EXCEPT !.alone = FALSE] ELSE call
  /\ UNCHANGED <<pc, cart0>>

\* ------------------------------------------------ the frontend's calls
\* POST /api/cart/add
HttpAdd(item_name, quantity) ==
  /\ CanStart
  /\ QuantityRejected(quantity) \/ CapOk(StorageKey(item_name), quantity)
  /\ FrontendCall("http_add", item_name, quantity,
                  add_to_cart(cart_storage, item_name, quantity))

\* POST /api/cart/remove
HttpRemove(item_name, quantity) ==
  FrontendCall("http_remove", item_name, quantity,
               remove_from_cart(cart_storage, item_name, quantity))

\* GET /api/cart/view
HttpView == FrontendCall("http_view", <<>>, 0, view_cart(cart_storage))

\* DELETE /api/cart/clear
HttpClear == FrontendCall("http_clear", <<>>, 0, clear_cart(cart_storage))

\* --------------------------------------------------- the agent's calls
\* the agent's call returns r to the tool, which says reply
Finish(op, item_name, quantity, c, requests, key, after, r, reply) ==
  /\ cart_storage' = after
  /\ pc' = "idle"
  /\ call' = NoCall
  /\ log' = Append(log, Entry("agent", op, item_name, quantity, c, requests,
                              key, after, r, reply))
  /\ UNCHANGED cart0

\* the agent's call goes on at label
Continue(label, c) ==
  /\ pc' = label
  /\ call' = c
  /\ UNCHANGED <<cart_storage, cart0, log>>

\* GroceryAgent.add_to_cart: validation, then grocery_api_add_item with the
\* stripped name
ToolAdd(item_name, quantity) ==
  LET name == Strip(item_name)
      r == grocery_api_add_item(cart_storage, name, quantity)
      c == [before |-> cart_storage, alone |-> TRUE]
  IN  /\ pc = "idle" /\ CanStart
      /\ ToolRejects(quantity, item_name)
           \/ CapOk(StorageKey(Normalize(name)), quantity)
      /\ IF ToolRejects(quantity, item_name)
         THEN Finish("tool_add", item_name, quantity, c, 0, <<>>, cart_storage,
                     ToolError, ErrorReply)
         ELSE Finish("tool_add", item_name, quantity, c, 1,
                     StorageKey(Normalize(name)), r.cart, r.result,
                     AddReply(r.result, quantity))

\* GroceryAgent.remove_from_cart: validation, then grocery_api_remove_item's
\* first POST, with the exact (stripped) name
ToolRemove(item_name, quantity) ==
  LET name == Strip(item_name)
      r == remove_from_cart(cart_storage, name, quantity)
      c == [before |-> cart_storage, alone |-> TRUE]
  IN  /\ pc = "idle" /\ CanStart
      /\ CASE ToolRejects(quantity, item_name) ->
                Finish("tool_remove", item_name, quantity, c, 0, <<>>,
                       cart_storage, ToolError, ErrorReply)
           [] ~ToolRejects(quantity, item_name) /\ r.http.status # 200 ->
                Finish("tool_remove", item_name, quantity, c, 1,
                       StorageKey(name), r.cart, ApiError(r.http.status),
                       RemoveReply(ApiError(r.http.status), quantity))
           [] ~ToolRejects(quantity, item_name) /\ r.http.status = 200
                /\ r.http.success ->
                Finish("tool_remove", item_name, quantity, c, 1,
                       StorageKey(name), r.cart, r.http, RemoveReply(r.http, quantity))
           [] OTHER ->
                \* the exact name is not in the cart: smart matching
                Continue("view",
                         [NoCall EXCEPT !.name = name, !.quantity = quantity,
                                        !.result = r.http, !.sent = 1,
                                        !.said = item_name,
                                        !.before = cart_storage])

\* mutation of NextTry: with no match left, the removal is retried anyway
NextTryRetriesAnyway(cands, requests, key) ==
  IF cands = <<>>
  THEN Continue("retry", [call EXCEPT !.sent = requests])
  ELSE Continue("retry",
                [call EXCEPT !.payload = Head(cands), !.rest = Tail(cands),
                             !.sent = requests])

\* the for loop of grocery_api_remove_item goes on to its next match, or
\* falls out of the loop and returns the exact-name result
NextTry(cands, requests, key) ==
  IF cands = <<>>
  THEN Finish("tool_remove", call.said, call.quantity, call, requests, key,
              cart_storage, call.result,
              RemoveReply(call.result, call.quantity))
  ELSE Continue("retry",
                [call EXCEPT !.payload = Head(cands), !.rest = Tail(cands),
                             !.sent = requests])

\* grocery_api_remove_item's GET /cart/view and its scan of the cart_items
AgentView ==
  LET r == view_cart(cart_storage)
  IN  /\ pc = "view"
      /\ IF r.http.status = 200
         THEN NextTry(Candidates(r.http.cart_items, call.name),
                      call.sent + 1, <<>>)
         ELSE NextTry(<<>>, call.sent + 1, <<>>)

\* grocery_api_remove_item's retry POST with the matched name: its result is
\* returned when answered 200, else the loop goes on
AgentRetry ==
  LET r == remove_from_cart(cart_storage, call.payload, call.quantity)
  IN  /\ pc = "retry"
      /\ IF r.http.status = 200
         THEN Finish("tool_remove", call.said, call.quantity, call,
                     call.sent + 1, StorageKey(call.payload), r.cart, r.http,
                     RemoveReply(r.http, call.quantity))
         ELSE NextTry(call.rest, call.sent + 1, StorageKey(call.payload))

\* ------------------------------------------------------ specification
\* the keys a cart can hold: what add_to_cart stores for the names
Keys == {StorageKey(n) : n \in Names}

\* the carts the program can be in: any distinct keys in any order with any
\* quantities from 1 (reached by POST /api/cart/add of each key in that
\* order); the empty cart of start-up is one of them
Carts ==
  {cart \in UNION {[1 .. k -> [item : Keys, quantity : 1 .. MaxQty]] : k \in 0 .. MaxKeys} :
     \A i, j \in 1 .. Len(cart) : cart[i].item = cart[j].item => i = j}

Init ==
  /\ cart_storage \in Carts
  /\ pc = "idle"
  /\ call = NoCall
  /\ cart0 = cart_storage
  /\ log = <<>>

Next ==
  \/ \E n \in Names, q \in Quantities : HttpAdd(n, q)
  \/ \E n \in Names, q \in Quantities : HttpRemove(n, q)
  \/ HttpView
  \/ HttpClear
  \/ \E n \in Names, q \in Quantities : ToolAdd(n, q)
  \/ \E n \in Names, q \in Quantities : ToolRemove(n, q)
  \/ AgentView
  \/ AgentRetry

\* up to MaxCalls calls of the two callers, interleaved at the agent's
\* awaits, from any cart, with the history of the calls
Spec == Init /\ [][Next]_vars

\* the event loop resumes the agent's call when the response to its request
\* arrives, and the server answers every request: a call in flight goes on
\* Whether a call returns does not hang on how many of an item the cart
\* holds: the carts to start from hold one of each.
FairInit == Init /\ \A i \in 1 .. Len(cart_storage) : cart_storage[i].quantity = 1

FairSpec ==
  FairInit /\ [][Next]_vars /\ WF_vars(AgentView) /\ WF_vars(AgentRetry)

\* ========================================================= properties
IsAdd(e) == e.op \in {"http_add", "tool_add"}

IsRemove(e) == e.op \in {"http_remove", "tool_remove"}

Calls == 1 .. Len(log)

Max0(n) == IF n < 0 THEN 0 ELSE n

\* lower-cased and trimmed, as the claims say it
Canon(name) == Strip(Lower(name))

\* C1: every key of the cart maps to a quantity >= 1, in every state: a key
\* whose quantity would reach 0 is deleted, never stored with 0 or less.
C1_QuantityAtLeastOne ==
  \A i \in 1 .. Len(cart_storage) : cart_storage[i].quantity >= 1

\* a Remove took a key's whole quantity (stored <= requested), the key is
\* gone and another key is still in the cart
C1_Witness ==
  \E i \in Calls :
    /\ IsRemove(log[i]) /\ log[i].response.success
    /\ Has(log[i].at, log[i].key)
    /\ Qty(log[i].at, log[i].key) <= log[i].quantity
    /\ ~Has(cart_storage, log[i].key)
    /\ cart_storage # <<>>

\* ------------------------------------------- what the specification says
\* an Add resolves its name to lower-case, trimmed, with a trailing s
\* appended through the agent unless the name ends in one
RefPlural(name) ==
  IF Canon(name) # <<>> /\ Canon(name)[Len(Canon(name))] = "s"
  THEN Canon(name)
  ELSE Canon(name) \o <<"s">>

RefKey(e) == IF e.op = "tool_add" THEN RefPlural(e.item_name) ELSE Canon(e.item_name)

\* Add: previous quantity of the key (0 if absent) plus q
RefAdd(cart, k, q) == Store(cart, k, Qty(cart, k) + q)

\* Remove on a present key: delete when stored <= q, else stored - q
RefRemove(cart, k, q) ==
  IF ~Has(cart, k) THEN cart
  ELSE IF Qty(cart, k) <= q THEN Delete(cart, k)
  ELSE Store(cart, k, Qty(cart, k) - q)

\* the fuzzy rules (a) to (d) between a lower-cased, trimmed name and a key
RefFuzzy(name, k) ==
  \/ name = k
  \/ name \o <<"s">> = k
  \/ name = k \o <<"s">>
  \/ RStripS(name) = RStripS(k)

SameMap(c1, c2) ==
  /\ Items(c1) = Items(c2)
  /\ \A k \in Items(c1) : Qty(c1, k) = Qty(c2, k)

Perms(n) ==
  {p \in [1 .. n -> 1 .. n] : \A i, j \in 1 .. n : p[i] = p[j] => i = j}

\* C4: a successful Remove(name, q), q > 0, on a matched key with stored
\* quantity s > 0 leaves the key with max(0, s - q): s - q when s > q, and
\* the key deleted when s <= q (never stored as 0), absent from every later
\* View until it is added again.
C4_RemoveLeavesMaxZero ==
  \A i \in Calls :
    (IsRemove(log[i]) /\ log[i].response.success /\ log[i].quantity > 0) =>
      LET k == log[i].key
          s == Qty(log[i].at, k)
          q == log[i].quantity
      IN  /\ Has(log[i].at, k) /\ s > 0
          /\ Qty(log[i].after, k) = Max0(s - q)
          /\ Has(log[i].after, k) <=> s > q
          /\ \A j \in Calls :
               ( /\ j > i /\ s <= q /\ log[j].op = "http_view"
                 /\ \A m \in (i + 1) .. (j - 1) :
                      ~(IsAdd(log[m]) /\ log[m].key = k) ) =>
                 ~Has(log[j].response.cart_items, k)

\* a Remove asked for more than the key held: the key is gone, and the View
\* after it does not show it
C4_Witness ==
  /\ Len(log) = 2
  /\ IsRemove(log[1]) /\ log[1].response.success
  /\ Qty(log[1].at, log[1].key) < log[1].quantity
  /\ ~Has(log[1].after, log[1].key)
  /\ log[2].op = "http_view"
  /\ log[2].response.cart_items # <<>>

\* C5: a successful Add(name, q), q > 0, leaves the canonical key with its
\* previous quantity (0 if absent) plus q; two Adds q1, q2 that resolve to
\* one key, with no other request on that key between them, leave it with
\* previous + q1 + q2.
C5_AddAccumulates ==
  /\ \A i \in Calls :
       (IsAdd(log[i]) /\ log[i].response.success) =>
         /\ log[i].quantity > 0
         /\ Has(log[i].after, RefKey(log[i]))
         /\ Qty(log[i].after, RefKey(log[i]))
              = Qty(log[i].at, RefKey(log[i])) + log[i].quantity
  /\ \A i, j \in Calls :
       ( /\ i < j
         /\ IsAdd(log[i]) /\ log[i].response.success
         /\ IsAdd(log[j]) /\ log[j].response.success
         /\ RefKey(log[i]) = RefKey(log[j])
         /\ \A m \in (i + 1) .. (j - 1) :
              log[m].key # RefKey(log[i]) /\ log[m].op # "http_clear" ) =>
         Qty(log[j].after, RefKey(log[j]))
           = Qty(log[i].at, RefKey(log[i])) + log[i].quantity + log[j].quantity

\* two Adds by different callers with differently written names, on a key
\* the cart already held
C5_Witness ==
  /\ Len(log) = 2
  /\ IsAdd(log[1]) /\ log[1].response.success
  /\ IsAdd(log[2]) /\ log[2].response.success
  /\ log[1].caller # log[2].caller
  /\ log[1].item_name # log[2].item_name
  /\ RefKey(log[1]) = RefKey(log[2])
  /\ Qty(log[1].at, RefKey(log[1])) >= 1
  /\ Qty(cart_storage, RefKey(log[1])) = MaxQty

\* C9: an Add or Remove with quantity <= 0 is refused at every entry point
\* (agent tool and HTTP endpoint) with a non-success outcome, and the cart
\* is exactly what it was.
C9_NonPositiveQuantityRejected ==
  \A i \in Calls :
    ((IsAdd(log[i]) \/ IsRemove(log[i])) /\ log[i].quantity <= 0) =>
      /\ ~log[i].response.success
      /\ log[i].response.status # 200
      /\ log[i].requests <= 1
      /\ log[i].after = log[i].at
      /\ log[i].at = log[i].before

\* quantity 0 at the endpoint and a negative quantity at the tool, on a cart
\* that holds the key asked for
C9_Witness ==
  /\ Len(log) = 2
  /\ log[1].op = "http_add" /\ log[1].quantity = 0
  /\ log[2].op = "tool_remove" /\ log[2].quantity < 0
  /\ Has(cart_storage, Canon(log[2].item_name))

\* C10: an Add or Remove whose name is empty once trimmed is refused at
\* every entry point (agent tool and HTTP endpoint) with a non-success
\* response and the cart unchanged, so no cart holds the key "".
C10_BlankNameRejected ==
  /\ \A i \in Calls :
       ((IsAdd(log[i]) \/ IsRemove(log[i])) /\ Canon(log[i].item_name) = <<>>) =>
         /\ ~log[i].response.success
         /\ log[i].after = log[i].at
  /\ ~Has(cart0, <<>>) => ~Has(cart_storage, <<>>)

\* C8: Remove(name, q), q > 0, run with no concurrent caller reports
\* success = false exactly when no key equals the name and no key
\* fuzzy-matches the lower-cased, trimmed name (the empty cart included);
\* then no fault is raised, the cart is unchanged and the snapshot in the
\* response is the unchanged cart.  Remove is grocery_api_remove_item: the
\* names and quantities the tool passes on to it.
C8_NotFoundIffNoMatch ==
  \A i \in Calls :
    ( /\ log[i].op = "tool_remove" /\ log[i].requests >= 1
      /\ log[i].quantity > 0 /\ log[i].alone ) =>
      LET e == log[i]
          nomatch == \A k \in Items(e.before) :
                       k # e.item_name /\ ~RefFuzzy(Canon(e.item_name), k)
      IN  /\ ~e.response.success <=> nomatch
          /\ ~e.response.success =>
               /\ e.response.status = 200
               /\ e.after = e.before
               /\ e.response.cart_items = e.before
               /\ e.response.total_items = SumQty(e.before)

\* a Remove that found no match in a cart that holds other keys, after the
\* exact request and the view
C8_Witness ==
  \E i \in Calls :
    /\ log[i].op = "tool_remove" /\ log[i].alone /\ log[i].quantity > 0
    /\ log[i].requests = 2
    /\ ~log[i].response.success
    /\ log[i].before # <<>>
    /\ cart_storage = log[i].before

\* v differs from n in letter case, surrounding whitespace or one trailing s
Variant(n, v) ==
  \/ Canon(v) = Canon(n)
  \/ Canon(v) = Canon(n) \o <<"s">>
  \/ Canon(n) = Canon(v) \o <<"s">>

\* log[i] is a successful Add through the agent and log[i + 1] the agent's
\* Remove right after it, r > 0, with no other caller in between or during
AddThenRemove(i) ==
  /\ i + 1 \in Calls
  /\ log[i].op = "tool_add" /\ log[i].response.success
  /\ log[i + 1].op = "tool_remove" /\ log[i + 1].quantity > 0
  /\ log[i + 1].alone
  /\ log[i + 1].before = log[i].after

\* C6: from the empty cart, Add(n, q) through the agent followed by
\* Remove(v, r), r > 0, with v a variant of n in letter case, surrounding
\* whitespace or a single trailing s, succeeds and leaves the stored key with
\* q - r when r < q, or the cart empty with total 0 when r >= q.
C6_VariantRemoveAfterAdd ==
  \A i \in Calls :
    ( /\ AddThenRemove(i)
      /\ log[i].before = <<>>
      /\ Variant(log[i].item_name, log[i + 1].item_name) ) =>
      LET q == log[i].quantity
          r == log[i + 1].quantity
      IN  /\ log[i + 1].response.success
          /\ r < q => log[i + 1].after
                        = <<[item |-> RefPlural(log[i].item_name),
                             quantity |-> q - r]>>
          /\ r >= q => /\ log[i + 1].after = <<>>
                       /\ log[i + 1].response.total_items = 0
          /\ log[i + 1].response.cart_items = log[i + 1].after

\* the Add stored 2 from the empty cart and a differently written variant
\* took 1 of them through the fuzzy retry
C6_Witness ==
  /\ Len(log) = 2
  /\ AddThenRemove(1)
  /\ log[1].before = <<>>
  /\ Variant(log[1].item_name, log[2].item_name)
  /\ Canon(log[1].item_name) # Canon(log[2].item_name)
  /\ log[2].requests = 3
  /\ log[2].quantity < log[1].quantity
  /\ cart_storage # <<>>

\* the cart with r taken from key k alone
ReducedBy(cart, k, r) == RefRemove(cart, k, r)

\* C7: after Add(n, q) through the normalizer, the Remove(n, r), r > 0,
\* right after it (no concurrent caller) reports success and reduces the
\* quantity of the key normalize(n) under which Add stored n, and of no
\* other key.
C7_RemoveHitsAddedKey ==
  \A i \in Calls :
    (AddThenRemove(i) /\ log[i + 1].item_name = log[i].item_name) =>
      /\ log[i + 1].response.success
      /\ log[i + 1].after
           = ReducedBy(log[i + 1].before, RefPlural(log[i].item_name),
                       log[i + 1].quantity)

\* the key a Remove of name takes from: lower(trim(name)) when the cart
\* holds it, else the first key in insertion order a fuzzy rule matches
Selected(cart, name) ==
  IF Has(cart, Canon(name)) THEN Canon(name)
  ELSE cart[CHOOSE j \in 1 .. Len(cart) :
              /\ RefFuzzy(Canon(name), cart[j].item)
              /\ \A m \in 1 .. (j - 1) : ~RefFuzzy(Canon(name), cart[m].item)].item

\* the cart holds no key that a Remove of name would take before the key
\* Add stored name under
NoRival(cart, name) ==
  \/ Canon(name) = RefPlural(name)
  \/ /\ ~Has(cart, Canon(name))
     /\ \A m \in 1 .. (IndexOf(cart, RefPlural(name)) - 1) :
          ~RefFuzzy(Canon(name), cart[m].item)

\* C7 (amended): after Add(n, q) through the normalizer, the Remove(n, r),
\* r > 0, right after it (no concurrent caller) reports success and reduces
\* one key only: lower(trim(n)) when the cart holds it, else the first key
\* in insertion order that a fuzzy rule matches.  That key is normalize(n)
\* when lower(trim(n)) ends in s, or when the cart neither holds
\* lower(trim(n)) nor a fuzzy-matching key inserted before normalize(n).
C7_RemoveHitsSelectedKey ==
  \A i \in Calls :
    (AddThenRemove(i) /\ log[i + 1].item_name = log[i].item_name) =>
      LET cart == log[i + 1].before
          n == log[i].item_name
      IN  /\ log[i + 1].response.success
          /\ log[i + 1].after
               = ReducedBy(cart, Selected(cart, n), log[i + 1].quantity)
          /\ NoRival(cart, n) => Selected(cart, n) = RefPlural(n)

\* the Remove right after the Add took from an older key that matches the
\* name, not from the key the Add stored
C7_Witness ==
  /\ Len(log) = 2
  /\ AddThenRemove(1) /\ log[2].item_name = log[1].item_name
  /\ log[2].response.success
  /\ log[2].key # RefPlural(log[1].item_name)
  /\ Qty(log[2].after, RefPlural(log[1].item_name))
       = Qty(log[2].before, RefPlural(log[1].item_name))

\* one request applied on its own, as the specification describes it: an
\* accepted Add increments or inserts its key, an accepted Remove of a
\* present key deletes it when stored <= q and decrements it otherwise,
\* Clear empties the cart, everything else leaves it
RefApply(cart, e) ==
  CASE IsAdd(e) /\ e.requests = 1 /\ e.quantity > 0 ->
         RefAdd(cart, RefKey(e), e.quantity)
    [] IsRemove(e) /\ e.requests = 1 /\ e.quantity > 0 ->
         RefRemove(cart, RefKey(e), e.quantity)
    [] e.op = "http_clear" -> <<>>
    [] OTHER -> cart

\* the cart after the calls of the history applied one at a time in the
\* order p, up to the n-th
RECURSIVE RefRun(_, _)
RefRun(p, n) ==
  IF n = 0 THEN cart0 ELSE RefApply(RefRun(p, n - 1), log[p[n]])

\* C3: no update is lost between concurrent Adds and exact-match Removes
\* (and Clears and Views): each request's check-then-act is not interleaved
\* with another request's mutation, so the final quantity of every key is
\* what applying the requests one at a time in some order gives.
C3_NoLostUpdate ==
  (\A i \in Calls : log[i].requests <= 1) =>
    \E p \in Perms(Len(log)) :
      \A k \in Items(cart_storage) \cup Items(RefRun(p, Len(log))) :
        Qty(cart_storage, k) = Qty(RefRun(p, Len(log)), k)

\* both callers changed the same key, which the cart held before: an Add
\* under one spelling and an exact-match Remove under another
C3_Witness ==
  /\ Len(log) = 2
  /\ log[1].caller # log[2].caller
  /\ \A i \in Calls : log[i].requests = 1 /\ log[i].response.success
  /\ IsAdd(log[1]) /\ IsRemove(log[2])
  /\ log[1].item_name # log[2].item_name
  /\ RefKey(log[1]) = RefKey(log[2])
  /\ Has(cart0, RefKey(log[1]))
  /\ Has(cart_storage, RefKey(log[1]))

\* the agent's Remove run with no other request between its own: the exact
\* request, the view, the retry with the first match
RemoveUninterrupted(cart, item_name, quantity) ==
  LET name == Strip(item_name)
      r == remove_from_cart(cart, name, quantity)
      cands == Candidates(view_cart(cart).http.cart_items, name)
      retry == remove_from_cart(cart, Head(cands), quantity)
  IN  IF ToolRejects(quantity, item_name) \/ r.http.status # 200
      THEN [cart |-> cart, success |-> FALSE]
      ELSE IF r.http.success THEN [cart |-> r.cart, success |-> TRUE]
      ELSE IF cands = <<>> THEN [cart |-> cart, success |-> FALSE]
      ELSE [cart |-> retry.cart, success |-> retry.http.success]

\* a whole call e run on its own on cart
Serial(cart, e) ==
  CASE e.op = "http_add" ->
         [cart |-> add_to_cart(cart, e.item_name, e.quantity).cart,
          success |-> add_to_cart(cart, e.item_name, e.quantity).http.success]
    [] e.op = "http_remove" ->
         [cart |-> remove_from_cart(cart, e.item_name, e.quantity).cart,
          success |-> remove_from_cart(cart, e.item_name, e.quantity).http.success]
    [] e.op = "http_view" -> [cart |-> cart, success |-> TRUE]
    [] e.op = "http_clear" -> [cart |-> <<>>, success |-> TRUE]
    [] e.op = "tool_add" ->
         IF ToolRejects(e.quantity, e.item_name)
         THEN [cart |-> cart, success |-> FALSE]
         ELSE [cart |-> grocery_api_add_item(cart, Strip(e.item_name), e.quantity).cart,
               success |-> grocery_api_add_item(cart, Strip(e.item_name),
                                                e.quantity).result.success]
    [] e.op = "tool_remove" -> RemoveUninterrupted(cart, e.item_name, e.quantity)

\* the cart before the n-th call of the serial order p
RECURSIVE SerialCart(_, _)
SerialCart(p, n) ==
  IF n = 1 THEN cart0 ELSE Serial(SerialCart(p, n - 1), log[p[n - 1]]).cart

\* C2: each Remove is atomic end to end: however its exact request, its
\* scan of the cart and its retry interleave with the calls of another
\* caller, the outcome the Remove reports and the final cart are those of
\* some serial execution of the same calls.
C2_RemoveSerializable ==
  pc = "idle" =>
    \E p \in Perms(Len(log)) :
      /\ SameMap(cart_storage, SerialCart(p, Len(log) + 1))
      /\ \A n \in Calls :
           log[p[n]].op = "tool_remove" =>
             Serial(SerialCart(p, n), log[p[n]]).success
               = log[p[n]].response.success

\* C11: Clear removes every entry and reports the number of distinct keys
\* the cart held before the call; it always succeeds; on the empty cart it
\* reports 0; after two Clears in a row the cart is what it is after one:
\* empty, total 0.
C11_ClearEmptiesAndCounts ==
  \A i \in Calls :
    log[i].op = "http_clear" =>
      /\ log[i].response.status = 200 /\ log[i].response.success
      /\ log[i].response.message = Msg("cleared", Cardinality(Items(log[i].at)))
      /\ log[i].at = <<>> => log[i].response.message.n = 0
      /\ log[i].after = <<>>
      /\ log[i].response.cart_items = <<>> /\ log[i].response.total_items = 0
      /\ (i + 1 \in Calls /\ log[i + 1].op = "http_clear") =>
           /\ log[i + 1].at = <<>>
           /\ log[i + 1].after = log[i].after
           /\ log[i + 1].response.message.n = 0

\* two Clears in a row on a cart of two keys with more items than keys
C11_Witness ==
  /\ Len(log) = 2
  /\ log[1].op = "http_clear" /\ log[2].op = "http_clear"
  /\ Len(cart0) = 2 /\ SumQty(cart0) > 2
  /\ log[1].response.message.n = 2
  /\ cart_storage = <<>>

\* the positions of the keys of cart that a fuzzy rule matches with name
FuzzyAt(cart, name) ==
  {j \in 1 .. Len(cart) : RefFuzzy(Canon(name), cart[j].item)}

\* C12: when the exact lookup of a Remove fails and several keys satisfy a
\* fuzzy rule, the key selected is the first of them in insertion order,
\* whichever rule it satisfies; the removal is tried on that key only, its
\* result is returned, and no later matching key is changed.
C12_FirstMatchSelected ==
  \A i \in Calls :
    ( /\ log[i].op = "tool_remove" /\ log[i].alone /\ log[i].quantity > 0
      /\ log[i].requests >= 1
      /\ ~Has(log[i].before, Canon(log[i].item_name))
      /\ FuzzyAt(log[i].before, log[i].item_name) # {} ) =>
      LET e == log[i]
          first == SetMin(FuzzyAt(e.before, e.item_name))
          k == e.before[first].item
      IN  /\ e.requests = 3
          /\ e.key = k
          /\ e.response.success /\ e.response.status = 200
          /\ e.response.message
               = IF e.before[first].quantity <= e.quantity
                 THEN Msg("removed_all", e.before[first].quantity)
                 ELSE Msg("removed", e.quantity)
          /\ \A j \in 1 .. Len(e.before) :
               j # first =>
                 /\ Has(e.after, e.before[j].item)
                 /\ Qty(e.after, e.before[j].item) = e.before[j].quantity

\* two keys match the name by different rules and the first one was taken,
\* the second one left as it was
C12_Witness ==
  \E i \in Calls :
    /\ log[i].op = "tool_remove" /\ log[i].alone /\ log[i].requests = 3
    /\ Cardinality(FuzzyAt(log[i].before, log[i].item_name)) = 2
    /\ log[i].key = log[i].before[1].item
    /\ ~Has(log[i].after, log[i].before[1].item)
    /\ log[i].after = <<log[i].before[2]>>
    /\ log[i].before[2].item = Canon(log[i].item_name) \o <<"s">>

\* the sum of the quantities of the first n entries of a snapshot
RECURSIVE RefTotal(_, _)
RefTotal(snapshot, n) ==
  IF n = 0 THEN 0 ELSE RefTotal(snapshot, n - 1) + snapshot[n].quantity

\* the cart right after the request that e's response answers: the agent's
\* Remove that found no match returns the response to its first request
AnsweredAt(e) ==
  IF e.op = "tool_remove" /\ e.requests = 2 THEN e.before ELSE e.after

\* C13: View never changes the cart, and every response of Add, Remove and
\* View (every CartResponse: a refused request is answered by an error that
\* carries none) has a snapshot that lists exactly the keys of the cart at
\* response time, each once, in insertion order with its stored quantity,
\* and total_items equal to the sum of the stored quantities, which is 0
\* exactly when the cart is empty.
C13_SnapshotIsCart ==
  \A i \in Calls :
    LET e == log[i]
        snap == e.response.cart_items
        cart == AnsweredAt(e)
    IN  /\ e.op = "http_view" =>
             e.after = e.at /\ e.response.status = 200 /\ e.response.success
        /\ (e.op # "http_clear" /\ e.response.status = 200) =>
             /\ Len(snap) = Len(cart)
             /\ \A j \in 1 .. Len(snap) :
                  /\ snap[j].item = cart[j].item
                  /\ snap[j].quantity = Qty(cart, snap[j].item)
             /\ \A j, m \in 1 .. Len(snap) :
                  snap[j].item = snap[m].item => j = m
             /\ e.response.total_items = RefTotal(cart, Len(cart))
             /\ e.response.total_items = 0 <=> cart = <<>>

\* an Add, then a View of a cart of two keys: both snapshots show the
\* appended key last, and the totals differ from the number of keys
C13_Witness ==
  /\ Len(log) = 2
  /\ IsAdd(log[1]) /\ log[1].response.success
  /\ log[2].op = "http_view"
  /\ Len(log[1].at) = 1 /\ Len(log[1].after) = 2
  /\ log[2].response.cart_items = log[1].response.cart_items
  /\ log[2].response.total_items > 2
  /\ cart_storage = log[2].response.cart_items

\* every key that is or was in the cart, or that a name resolves to
AllKeys ==
  Items(cart_storage) \cup Items(cart0) \cup Keys
    \cup {RefPlural(n) : n \in Names}
    \cup UNION {Items(log[i].at) \cup Items(log[i].after) : i \in Calls}

\* C14: the normalizer used on Add maps every non-empty raw name n to
\* lower(trim(n)) when that ends in s and to lower(trim(n)) + "s" otherwise;
\* the key under which the Add stores its quantity is exactly this value,
\* whatever the cart holds, and nothing else of the cart is touched.
C14_AddStoresPluralKey ==
  \A i \in Calls :
    (log[i].op = "tool_add" /\ log[i].response.success) =>
      /\ Canon(log[i].item_name) # <<>>
      /\ \A k \in AllKeys :
           Qty(log[i].after, k) # Qty(log[i].at, k)
             <=> k = RefPlural(log[i].item_name)
      /\ Items(log[i].after)
           = Items(log[i].at) \cup {RefPlural(log[i].item_name)}

\* a name that ends in s and one that does not, each written with capitals
\* or blanks, were added on a cart that held another key
C14_Witness ==
  /\ Len(log) = 2
  /\ \A i \in Calls :
       /\ log[i].op = "tool_add" /\ log[i].response.success
       /\ log[i].item_name # Canon(log[i].item_name)
  /\ RefPlural(log[1].item_name) = Canon(log[1].item_name)
  /\ RefPlural(log[2].item_name) # Canon(log[2].item_name)
  /\ cart0 # <<>>
  /\ Len(cart_storage) = MaxKeys

\* C15: the normalizer's canonicalization is not idempotent in general:
\* for some raw name n, normalize(normalize(n)) differs from normalize(n).
C15_NormalizeNotIdempotent ==
  \E n \in Names \cup AllKeys : Normalize(Normalize(n)) # Normalize(n)

\* C15 (amended): the normalizer's canonicalization is idempotent:
\* normalize(normalize(n)) = normalize(n) for every raw name n, so an Add of
\* the key a name was stored under lands on that same key.
C15_NormalizeIdempotent ==
  /\ \A n \in Names \cup AllKeys : Normalize(Normalize(n)) = Normalize(n)
  /\ \A i, j \in Calls :
       ( /\ i < j
         /\ log[i].op = "tool_add" /\ log[i].response.success
         /\ log[j].op = "tool_add" /\ log[j].response.success
         /\ Qty(log[i].after, log[j].item_name)
              # Qty(log[i].at, log[j].item_name) ) =>
         \A k \in AllKeys :
           Qty(log[j].after, k) # Qty(log[j].at, k) <=> k = log[j].item_name

\* a name was added and stored under its plural, then the stored key itself
\* was added: one key, with both quantities
C15_Witness ==
  /\ Len(log) = 2
  /\ log[1].op = "tool_add" /\ log[1].response.success
  /\ log[2].op = "tool_add" /\ log[2].response.success
  /\ Canon(log[1].item_name) # log[2].item_name
  /\ log[1].before = <<>>
  /\ cart_storage
       = <<[item |-> log[2].item_name,
            quantity |-> log[1].quantity + log[2].quantity]>>

\* C16: every successful Remove reports the quantity actually removed: the
\* stored quantity s on a full removal (s <= q, "removed all s"), q on a
\* partial one ("removed q"); the amount reported to the caller, by the
\* server's message and by the tool's sentence, never exceeds what the cart
\* held for the matched key.
C16_ReportsRemovedQuantity ==
  \A i \in Calls :
    (IsRemove(log[i]) /\ log[i].response.success) =>
      LET s == Qty(log[i].at, log[i].key)
          q == log[i].quantity
      IN  /\ log[i].response.message
               = IF s <= q THEN Msg("removed_all", s) ELSE Msg("removed", q)
          /\ log[i].response.message.n <= s
          /\ log[i].reply.n <= s

\* the requests of the calls are bounded: one for an Add, a View, a Clear or
\* a frontend Remove; for the agent's Remove its exact attempt, one view
\* and retries for matching keys of the viewed snapshot only
BoundedRequests ==
  /\ \A i \in Calls :
       /\ log[i].op # "tool_remove" => log[i].requests <= 1
       /\ log[i].requests <= 2 + MaxKeys
  /\ pc = "view" => call.sent = 1
  /\ pc = "retry" =>
       /\ call.sent >= 2
       /\ call.sent + 1 + Len(call.rest) <= 2 + MaxKeys
       /\ RefFuzzy(Canon(call.name), call.payload)
       /\ \A j \in 1 .. Len(call.rest) :
            RefFuzzy(Canon(call.name), call.rest[j])

\* C17: no operation blocks for ever: under fair scheduling every call
\* returns a response, and a Remove makes a bounded number of requests (its
\* exact attempt, at most one view, and a retry only for keys of the viewed
\* snapshot), whatever the cart holds and whatever the other caller does.
C17_CallsReturn ==
  /\ []BoundedRequests
  /\ (pc # "idle") ~> (pc = "idle")

\* the agent's Remove returned after its three requests although the other
\* caller wrote to the cart while it was in flight
C17_Witness ==
  \E i \in Calls :
    /\ log[i].op = "tool_remove" /\ log[i].requests = 3
    /\ ~log[i].alone
    /\ log[i].at # log[i].before
    /\ pc = "idle"

\* e is a Remove, q > 0, that reached the server with a name that differs
\* from a key of the cart in letter case or surrounding whitespace only
DiffersInCaseOrBlanks(e) ==
  /\ IsRemove(e) /\ e.quantity > 0 /\ e.requests >= 1
  /\ e.item_name # Canon(e.item_name)
  /\ Has(e.before, Canon(e.item_name))

\* C18: the exact-match attempt of Remove looks the raw name up verbatim,
\* without case folding or trimming: a Remove whose name differs from a
\* stored key only in letter case or surrounding whitespace does not match
\* at the exact-match step and succeeds only through the fuzzy fallback's
\* case-insensitive rule (a).
C18_ExactLookupVerbatim ==
  \A i \in Calls :
    (DiffersInCaseOrBlanks(log[i]) /\ log[i].op = "tool_remove" /\ log[i].alone) =>
      /\ log[i].response.success
      /\ log[i].requests = 3
      /\ log[i].key = Canon(log[i].item_name)

\* C18 (amended): the exact-match attempt of Remove lower-cases and trims
\* the name before the lookup: a Remove whose name differs from a stored key
\* only in letter case or surrounding whitespace matches at the exact-match
\* step and succeeds with that one request, without the fuzzy fallback.
C18_ExactLookupFoldsCase ==
  \A i \in Calls :
    DiffersInCaseOrBlanks(log[i]) =>
      /\ log[i].response.success
      /\ log[i].requests = 1
      /\ log[i].key = Canon(log[i].item_name)
      /\ log[i].after
           = RefRemove(log[i].before, Canon(log[i].item_name), log[i].quantity)

\* the agent's Remove of a name with capitals took from the lower-case key
\* with its first request; so did the frontend's Remove of a name with a
\* blank in front
C18_Witness ==
  /\ Len(log) = 2
  /\ \A i \in Calls : DiffersInCaseOrBlanks(log[i]) /\ log[i].requests = 1
  /\ log[1].op = "tool_remove" /\ Strip(log[1].item_name) # Canon(log[1].item_name)
  /\ log[2].op = "http_remove" /\ Strip(log[2].item_name) # log[2].item_name
  /\ Len(cart0) = 2 /\ Len(cart_storage) < 2

\* the cart without key k: the other keys in their order, with quantities
Others(cart, k) == SelectSeq(cart, LAMBDA entry : entry.item # k)

\* what a completed call's own write did to the cart
FrameOf(e) ==
  /\ IsAdd(e) =>
       /\ Others(e.after, RefKey(e)) = Others(e.at, RefKey(e))
       /\ Has(e.at, RefKey(e)) =>
            IndexOf(e.after, RefKey(e)) = IndexOf(e.at, RefKey(e))
       /\ RefTotal(e.after, Len(e.after))
            = RefTotal(e.at, Len(e.at))
                + (IF e.response.success THEN e.quantity ELSE 0)
       /\ Items(e.at) \subseteq Items(e.after)
  /\ IsRemove(e) =>
       /\ Others(e.after, e.key) = Others(e.at, e.key)
       /\ Qty(e.at, e.key) - Qty(e.after, e.key) \in 0 .. Max0(e.quantity)
       /\ Has(e.after, e.key) =>
            IndexOf(e.after, e.key) = IndexOf(e.at, e.key)
       /\ ~e.response.success => e.after = e.at
       /\ Items(e.after) \subseteq Items(e.at)
  /\ e.op = "http_view" => e.after = e.at
  /\ e.op = "http_clear" => e.after = <<>>

\* a step that completes no call (the agent's failed exact attempt, its
\* view) writes nothing; a step that completes one writes what is recorded
StepFrame ==
  /\ log' = log => cart_storage' = cart_storage
  /\ log' # log =>
       /\ Len(log') = Len(log) + 1
       /\ log'[Len(log')].at = cart_storage
       /\ log'[Len(log')].after = cart_storage'

\* C19: each Add and each Remove changes at most one key: an Add only the
\* key it resolves to, raising the total by exactly q; a Remove call, with
\* its failed exact attempt and its retry and under interleaving, lowers
\* at most one key by at most q; every other key keeps its quantity and its
\* place in the order; a key leaves the cart only through a Remove that
\* selected it or through Clear.
C19_OneKeyPerCall ==
  /\ [](\A i \in Calls : FrameOf(log[i]))
  /\ [][StepFrame]_vars

\* the agent's Remove, interleaved with a frontend Add of another key, took
\* from the second of the keys it began with and left the others in place
C19_Witness ==
  /\ Len(log) = 2
  /\ log[1].op = "http_add" /\ log[1].response.success
  /\ log[2].op = "tool_remove" /\ log[2].response.success /\ ~log[2].alone
  /\ log[2].requests = 3
  /\ Len(log[2].at) = 2
  /\ log[2].key = log[2].at[2].item
  /\ cart_storage = <<log[2].at[1]>>

\* k has no capital letter and no blank at either end
LowerTrimmed(k) ==
  /\ \A j \in 1 .. Len(k) : k[j] \notin {"A", "S"}
  /\ k # <<>> => k[1] # " " /\ k[Len(k)] # " "

\* C20: in every reachable cart every key is lower-case with no leading or
\* trailing whitespace, whichever entry point added it, and every key stored
\* through the normalizing add path ends in s.  So once the fuzzy scan has
\* selected a key of the viewed snapshot, the retry finds it by exact lookup
\* whenever no other caller changed the cart in between.
C20_KeysLowerTrimmed ==
  /\ \A k \in Items(cart_storage) : LowerTrimmed(k)
  /\ \A i \in Calls :
       /\ (log[i].op = "tool_add" /\ log[i].response.success) =>
            \A k \in Items(log[i].after) :
              Qty(log[i].after, k) # Qty(log[i].at, k) =>
                k # <<>> /\ k[Len(k)] = "s"
       /\ (log[i].op = "tool_remove" /\ log[i].requests = 3 /\ log[i].alone) =>
            /\ Has(log[i].before, log[i].key)
            /\ log[i].response.success

\* the frontend added a name with a blank and a capital, stored without
\* them and without an s; the agent's Remove then selected that key in its
\* scan and its retry found it
C20_Witness ==
  /\ Len(log) = 2
  /\ log[1].op = "http_add" /\ log[1].response.success
  /\ log[1].item_name # Canon(log[1].item_name)
  /\ log[1].at = <<>>
  /\ log[2].op = "tool_remove" /\ log[2].requests = 3 /\ log[2].alone
  /\ log[2].response.success
  /\ log[2].key = log[1].key
  /\ log[2].key # <<>> /\ log[2].key[Len(log[2].key)] # "s"

====
